---- MODULE Spec2Model ----
(***************************************************************************)
(* A model of main.py: six path operations registered on one FastAPI       *)
(* application, the Item request-body schema, and the handlers.            *)
(*                                                                         *)
(* Text is a sequence of characters, so that reading a path segment as an  *)
(* integer or a string as a float is a computation.  A character is a      *)
(* one-character string; a character beyond U+00FF, which a string of this *)
(* language cannot hold, is the string of its code point, as in "U+2003".  *)
(* A path                                                                  *)
(* is the sequence of its segments: "/" is <<"">>, "/items/" is            *)
(* <<"items", "">>, "/items/5" is <<"items", "5">>.                        *)
(*                                                                         *)
(* A JSON value is a record [kind, n, s].  A float is one of               *)
(*   kind "num": a finite double that is a multiple of 0.5, n counting     *)
(*               halves (20 is 10.0, 3 is 1.5); doubles add such numbers   *)
(*               exactly while the magnitude stays below 2^52;             *)
(*   kind "big": the double 1e308 (n = 1) or -1e308 (n = -1), which        *)
(*               absorbs every "num" added to it and overflows when added  *)
(*               to itself;                                                *)
(*   kind "inf": an infinity, n its sign;                                  *)
(*   kind "nan": not a number.                                             *)
(* Numbers of kind "int" count units; true and false are kind "bool" with  *)
(* n 1 and 0, and an array is kind "list", its elements left out.          *)
(***************************************************************************)
EXTENDS Integers, Sequences, FiniteSets, TLC

VARIABLES routes, slots

vars == <<routes, slots>>

\* ------------------------------------------------------------------ bounds

\* Longest path segment drawn over Chars.
MaxSegLen == 2

\* Requests that may be in flight at once.
MaxReq == 3

\* Largest magnitude of the integers the properties range over.
MaxItemId == 55

\* ------------------------------------------------------------------- text

Chars == {"0", "5", "-", "a", "_", ".", "+"}

Digits == {"0", "1", "2", "3", "4", "5", "6", "7", "8", "9"}

Words(n) == UNION {[1..k -> Chars] : k \in 0..n}

items == <<"i", "t", "e", "m", "s">>
users == <<"u", "s", "e", "r", "s">>
me == <<"m", "e">>
EmptySeg == <<>>
docs == <<"d", "o", "c", "s">>
redoc == <<"r", "e", "d", "o", "c">>
openapi_json ==
    <<"o", "p", "e", "n", "a", "p", "i", ".", "j", "s", "o", "n">>
oauth2_redirect ==
    <<"o", "a", "u", "t", "h", "2", "-", "r", "e", "d", "i", "r", "e", "c", "t">>

\* ------------------------------------------------------------ JSON values

Null == [kind |-> "null", n |-> 0, s |-> <<>>]
Num(h) == [kind |-> "num", n |-> h, s |-> <<>>]
Big(sign) == [kind |-> "big", n |-> sign, s |-> <<>>]
Inf(sign) == [kind |-> "inf", n |-> sign, s |-> <<>>]
NaN == [kind |-> "nan", n |-> 0, s |-> <<>>]
IntV(i) == [kind |-> "int", n |-> i, s |-> <<>>]
Str(t) == [kind |-> "str", n |-> 0, s |-> t]
Bool(b) == [kind |-> "bool", n |-> IF b THEN 1 ELSE 0, s |-> <<>>]
List == [kind |-> "list", n |-> 0, s |-> <<>>]

Floats == {"num", "big", "inf", "nan"}

EmptyMap == [k \in {} |-> Null]

\* dict.update({k: v}) / {k: v, **m}
Update(m, k, v) == [x \in (DOMAIN m) \cup {k} |-> IF x = k THEN v ELSE m[x]]

Last(q) == q[Len(q)]

Front(q) == SubSeq(q, 1, Len(q) - 1)

\* -------------------------------------------------- the registered routes

Lit(t) == [param |-> "", text |-> t]
Param(p) == [param |-> p, text |-> <<>>]

\* FastAPI() registers the schema and documentation pages before any
\* decorator runs; a GET route also answers HEAD.
openapi_route ==
    [methods |-> {"GET", "HEAD"}, pattern |-> <<Lit(openapi_json)>>,
     endpoint |-> "openapi"]

swagger_ui_html_route ==
    [methods |-> {"GET", "HEAD"}, pattern |-> <<Lit(docs)>>,
     endpoint |-> "swagger_ui_html"]

swagger_ui_redirect_route ==
    [methods |-> {"GET", "HEAD"},
     pattern |-> <<Lit(docs), Lit(oauth2_redirect)>>,
     endpoint |-> "swagger_ui_redirect"]

redoc_html_route ==
    [methods |-> {"GET", "HEAD"}, pattern |-> <<Lit(redoc)>>,
     endpoint |-> "redoc_html"]

\* app.router.routes after app = FastAPI().
FrameworkRoutes ==
    <<openapi_route, swagger_ui_html_route, swagger_ui_redirect_route,
      redoc_html_route>>

root_route ==
    [methods |-> {"GET"}, pattern |-> <<Lit(EmptySeg)>>, endpoint |-> "root"]

read_item_route ==
    [methods |-> {"GET"}, pattern |-> <<Lit(items), Param("item_id")>>,
     endpoint |-> "read_item"]

read_user_me_route ==
    [methods |-> {"GET"}, pattern |-> <<Lit(users), Lit(me)>>,
     endpoint |-> "read_user_me"]

read_user_route ==
    [methods |-> {"GET"}, pattern |-> <<Lit(users), Param("user_id")>>,
     endpoint |-> "read_user"]

create_item_route ==
    [methods |-> {"POST"}, pattern |-> <<Lit(items), Lit(EmptySeg)>>,
     endpoint |-> "create_item"]

replace_item_route ==
    [methods |-> {"PUT"}, pattern |-> <<Lit(items), Param("item_id")>>,
     endpoint |-> "replace_item"]

\* Mutant: /users/{user_id} declared above /users/me.
DecoratorsUserFirst ==
    <<root_route, read_item_route, read_user_route, read_user_me_route,
      create_item_route, replace_item_route>>

\* The decorators of main.py, top to bottom.
Decorators ==
    <<root_route, read_item_route, read_user_me_route, read_user_route,
      create_item_route, replace_item_route>>

\* app.router.routes once main.py is imported.
AppRoutes == FrameworkRoutes \o Decorators

\* ----------------------------------------------------------------- router

\* A literal segment matches its own text; a placeholder compiles to [^/]+,
\* one or more characters other than "/".
SegMatches(p, seg) ==
    IF p.param = "" THEN seg = p.text ELSE seg # EmptySeg

PathMatches(pattern, path) ==
    /\ Len(pattern) = Len(path)
    /\ \A i \in 1..Len(pattern) : SegMatches(pattern[i], path[i])

\* Match.NONE / Match.PARTIAL (the path matches, the method does not) / Match.FULL
Match(route, method, path) ==
    IF ~PathMatches(route.pattern, path) THEN "NONE"
    ELSE IF method \in route.methods THEN "FULL"
    ELSE "PARTIAL"

\* Mutant: the most specific match, the one with the most literal segments, wins.
FirstRouteBySpecificity(rs, method, path, kinds) ==
    LET hits == {i \in 1..Len(rs) : Match(rs[i], method, path) \in kinds}
        lits(i) == Cardinality({k \in 1..Len(rs[i].pattern) :
                                   rs[i].pattern[k].param = ""})
    IN IF hits = {} THEN 0
       ELSE CHOOSE i \in hits :
                \A j \in hits : lits(i) > lits(j) \/ (lits(i) = lits(j) /\ i <= j)

\* Index of the first route of rs whose match is in kinds; 0 when there is none.
FirstRoute(rs, method, path, kinds) ==
    LET hits == {i \in 1..Len(rs) : Match(rs[i], method, path) \in kinds}
    IN IF hits = {} THEN 0
       ELSE CHOOSE i \in hits : \A j \in hits : i <= j

RECURSIVE RStrip(_)
RStrip(path) ==
    IF Len(path) > 0 /\ Last(path) = EmptySeg THEN RStrip(Front(path))
    ELSE path

\* redirect_slashes: the path with its trailing slashes removed, or with one added.
RedirectPath(path) ==
    IF Last(path) = EmptySeg THEN RStrip(path) ELSE Append(path, EmptySeg)

\* The router's pass over the routes in registration order.
Dispatch(rs, method, path) ==
    LET full == FirstRoute(rs, method, path, {"FULL"})
        partial == FirstRoute(rs, method, path, {"PARTIAL"})
    IN IF full # 0 THEN [kind |-> "endpoint", route |-> full]
       ELSE IF partial # 0 THEN [kind |-> "method_not_allowed", route |-> partial]
       ELSE IF /\ path # <<EmptySeg>>
               /\ \E i \in 1..Len(rs) :
                      PathMatches(rs[i].pattern, RedirectPath(path))
            THEN [kind |-> "redirect", route |-> 0]
       ELSE [kind |-> "not_found", route |-> 0]

\* The text a placeholder of the route is bound to.
PathParam(route, path, name) ==
    LET i == CHOOSE j \in 1..Len(route.pattern) : route.pattern[j].param = name
    IN path[i]

\* ------------------------------------------------- coercion and validation

DigitVal(c) ==
    CASE c = "0" -> 0 [] c = "1" -> 1 [] c = "2" -> 2 [] c = "3" -> 3
      [] c = "4" -> 4 [] c = "5" -> 5 [] c = "6" -> 6 [] c = "7" -> 7
      [] c = "8" -> 8 [] c = "9" -> 9

IsDigits(t) == Len(t) > 0 /\ \A i \in 1..Len(t) : t[i] \in Digits

RECURSIVE DigitsValue(_)
DigitsValue(t) ==
    IF t = <<>> THEN 0 ELSE 10 * DigitsValue(Front(t)) + DigitVal(Last(t))

Failed == [ok |-> FALSE, value |-> 0]

\* White space at either end of a text is not part of a number: the space, the
\* tab, the line feed, the carriage return, the form feed, the vertical tab,
\* the next-line character, the no-break space, and the seventeen characters
\* with the Unicode property White_Space beyond them.
Spaces ==
    {" ", "\t", "\n", "\r", "\f", "", "", " ",
     "U+1680", "U+2000", "U+2001", "U+2002", "U+2003", "U+2004", "U+2005",
     "U+2006", "U+2007", "U+2008", "U+2009", "U+200A", "U+2028", "U+2029",
     "U+202F", "U+205F", "U+3000"}

RECURSIVE TrimLeft(_)
TrimLeft(t) ==
    IF Len(t) > 0 /\ t[1] \in Spaces THEN TrimLeft(Tail(t)) ELSE t

RECURSIVE TrimRight(_)
TrimRight(t) ==
    IF Len(t) > 0 /\ Last(t) \in Spaces THEN TrimRight(Front(t)) ELSE t

Trim(t) == TrimRight(TrimLeft(t))

StripMinus(t) == IF Len(t) > 1 /\ t[1] = "-" THEN Tail(t) ELSE t

\* [+-]?[0-9]+ read as a decimal integer.
PlainInt(t) ==
    IF IsDigits(t) THEN [ok |-> TRUE, value |-> DigitsValue(t)]
    ELSE IF Len(t) > 1 /\ t[1] \in {"-", "+"} /\ IsDigits(Tail(t))
         THEN [ok |-> TRUE,
               value |-> IF t[1] = "-" THEN 0 - DigitsValue(Tail(t))
                         ELSE DigitsValue(Tail(t))]
    ELSE Failed

\* -?(0|[1-9][0-9]*) read as a decimal integer: no "+" and no zero in front of
\* another digit.
CanonicalInt(t) ==
    IF Len(t) > 0 /\ t[1] # "+" /\ (Len(StripMinus(t)) = 1 \/ StripMinus(t)[1] # "0")
    THEN PlainInt(t)
    ELSE Failed

IsNegative(t) == Len(t) > 0 /\ t[1] = "-"

\* The text behind its sign, one "-" or one "+".
StripSign(t) == IF Len(t) > 0 /\ t[1] \in {"-", "+"} THEN Tail(t) ELSE t

\* Leading zeros, and underscores among them, go, and what follows them stays
\* from its first digit or "-" on; before a point the character in front of
\* it stays, and of zeros and underscores alone the last character does.
RECURSIVE ScanLeadingZeros(_, _)
ScanLeadingZeros(t, i) ==
    IF i > Len(t) THEN [ok |-> TRUE, s |-> <<Last(t)>>]
    ELSE IF t[i] \in {"0", "_"} THEN ScanLeadingZeros(t, i + 1)
    ELSE IF t[i] \in Digits \cup {"-"} THEN [ok |-> TRUE, s |-> SubSeq(t, i, Len(t))]
    ELSE IF t[i] = "." THEN [ok |-> TRUE, s |-> SubSeq(t, i - 1, Len(t))]
    ELSE [ok |-> FALSE, s |-> <<>>]

\* A text that does not start with a digit is no integer.
StripLeadingZeros(t) ==
    IF t = <<>> THEN [ok |-> FALSE, s |-> <<>>]
    ELSE IF t[1] = "0" THEN ScanLeadingZeros(t, 2)
    ELSE IF t[1] \in Digits THEN [ok |-> TRUE, s |-> t]
    ELSE [ok |-> FALSE, s |-> <<>>]

\* A fractional part of one or more zeros, and nothing else, goes with its
\* point.
StripDecimalZeros(t) ==
    LET dots == {i \in 1..Len(t) : t[i] = "."}
    IN IF dots = {} THEN t
       ELSE LET d == CHOOSE i \in dots : \A j \in dots : i <= j
            IN IF d < Len(t) /\ \A j \in (d + 1)..Len(t) : t[j] = "0"
               THEN SubSeq(t, 1, d - 1)
               ELSE t

RECURSIVE Without(_, _)
Without(t, c) ==
    IF t = <<>> THEN <<>>
    ELSE IF t[1] = c THEN Without(Tail(t), c)
    ELSE <<t[1]>> \o Without(Tail(t), c)

\* Single underscores between other characters go; at an end or doubled they
\* make the text no number.
StripUnderscores(t) ==
    IF \/ \A i \in 1..Len(t) : t[i] # "_"
       \/ t[1] = "_"
       \/ Last(t) = "_"
       \/ \E i \in 1..(Len(t) - 1) : t[i] = "_" /\ t[i + 1] = "_"
    THEN [ok |-> FALSE, s |-> <<>>]
    ELSE [ok |-> TRUE, s |-> Without(t, "_")]

\* The text without its underscores where they can go, and else as it is.
DropUnderscores(t) == IF StripUnderscores(t).ok THEN StripUnderscores(t).s ELSE t

\* The sign put back in front of the cleaned text.
Signed(negative, t) == IF negative THEN <<"-">> \o t ELSE t

\* The trimmed text with everything the integer coercion overlooks taken out
\* of it: behind the sign, the leading zeros, a fractional part of zeros and
\* single underscores.
CleanIntStr(t) ==
    LET z == StripLeadingZeros(StripSign(t))
    IN IF ~z.ok THEN [ok |-> FALSE, s |-> <<>>]
       ELSE [ok |-> TRUE,
             s |-> Signed(IsNegative(t), DropUnderscores(StripDecimalZeros(z.s)))]

\* Mutant: text that is no integer is read as 0.
ParseIntLenient(t) ==
    IF CleanIntStr(Trim(t)).ok /\ CanonicalInt(CleanIntStr(Trim(t)).s).ok
    THEN CanonicalInt(CleanIntStr(Trim(t)).s)
    ELSE [ok |-> TRUE, value |-> 0]

\* item_id: int -- the segment's text coerced to an integer, or a failure: the
\* text is trimmed, cleaned behind its sign of leading zeros, a fractional
\* part of zeros and single underscores, and what is left is read as
\* -?(0|[1-9][0-9]*).
ParseInt(t) ==
    IF CleanIntStr(Trim(t)).ok THEN CanonicalInt(CleanIntStr(Trim(t)).s)
    ELSE Failed

LowerChar(c) ==
    CASE c = "I" -> "i" [] c = "N" -> "n" [] c = "F" -> "f" [] c = "T" -> "t"
      [] c = "Y" -> "y" [] c = "A" -> "a" [] c = "E" -> "e" [] OTHER -> c

Lower(t) == [i \in 1..Len(t) |-> LowerChar(t[i])]

RECURSIVE Pow10(_)
Pow10(k) == IF k = 0 THEN 1 ELSE 10 * Pow10(k - 1)

RECURSIVE DropZeros(_)
DropZeros(t) == IF Len(t) > 0 /\ t[1] = "0" THEN DropZeros(Tail(t)) ELSE t

\* digits * 10^k with the trailing zeros of a fraction removed.
RECURSIVE Normal(_, _)
Normal(digits, k) ==
    IF k < 0 /\ Len(digits) > 0 /\ Last(digits) = "0"
    THEN Normal(Front(digits), k + 1)
    ELSE [digits |-> digits, k |-> k]

\* The double nearest to sign * digits * 10^k, digits without leading zeros
\* and, for a fraction, without trailing ones: zero, an infinity when the
\* magnitude is beyond the doubles, and otherwise the value itself, which the
\* model holds when it is a multiple of 0.5 of at most eight digits.
Scaled(sign, digits, k) ==
    CASE digits = <<>> -> Num(0)
      [] digits # <<>> /\ Len(digits) + k > 309 -> Inf(sign)
      [] digits # <<>> /\ k >= 0 /\ Len(digits) + k <= 8 ->
           Num(sign * 2 * DigitsValue(digits) * Pow10(k))
      [] digits # <<>> /\ k < 0 /\ Len(digits) <= 8 /\ k >= 0 - 8
                       /\ (2 * DigitsValue(digits)) % Pow10(0 - k) = 0 ->
           Num(sign * ((2 * DigitsValue(digits)) \div Pow10(0 - k)))

ScaledNormal(sign, nz) == Scaled(sign, nz.digits, nz.k)

DecimalValue(sign, digits, k) == ScaledNormal(sign, Normal(DropZeros(digits), k))

\* Index of the first c in t; Len(t) + 1 when there is none.
RECURSIVE FirstIndex(_, _)
FirstIndex(t, c) ==
    IF t = <<>> THEN 1
    ELSE IF t[1] = c THEN 1
    ELSE 1 + FirstIndex(Tail(t), c)

Before(t, i) == SubSeq(t, 1, i - 1)

After(t, i) == SubSeq(t, i + 1, Len(t))

\* Number ::= ( Digit+ | Digit+ '.' Digit* | Digit* '.' Digit+ ) Exp?, the
\* exponent already read: ex.ok says whether it is Sign? Digit+.
Numeral(sign, mant, hasExp, ex) ==
    IF /\ \A i \in 1..Len(mant) : mant[i] \in Digits \cup {"."}
       /\ IsDigits(Without(mant, "."))
       /\ Len(mant) - Len(Without(mant, ".")) <= 1
       /\ hasExp => ex.ok
    THEN [ok |-> TRUE,
          value |-> DecimalValue(sign, Without(mant, "."),
                                 (IF hasExp THEN ex.value ELSE 0)
                                   - Len(After(mant, FirstIndex(mant, "."))))]
    ELSE [ok |-> FALSE, value |-> Null]

\* ( inf | infinity | nan | Number ) in lower case, Exp ::= 'e' Sign? Digit+.
Unsigned(sign, r) ==
    IF r \in {<<"i", "n", "f">>, <<"i", "n", "f", "i", "n", "i", "t", "y">>}
    THEN [ok |-> TRUE, value |-> Inf(sign)]
    ELSE IF r = <<"n", "a", "n">> THEN [ok |-> TRUE, value |-> NaN]
    ELSE Numeral(sign, Before(r, FirstIndex(r, "e")),
                 FirstIndex(r, "e") <= Len(r),
                 PlainInt(After(r, FirstIndex(r, "e"))))

\* Sign? ( inf | infinity | nan | Number ), in either case.
PlainFloat(t) ==
    IF Len(t) > 0 /\ t[1] \in {"+", "-"}
    THEN Unsigned(IF t[1] = "-" THEN 0 - 1 ELSE 1, Lower(Tail(t)))
    ELSE Unsigned(1, Lower(t))

\* The text without its underscores, when they are single and inside it.
WithoutUnderscores(t, u) ==
    IF u.ok THEN PlainFloat(u.s) ELSE [ok |-> FALSE, value |-> Null]

OrElse(p, q) == IF p.ok THEN p ELSE q

\* A string given for a float: the trimmed text is read as a float, and failing
\* that the text is read again with its single underscores removed.
ParseFloat(t) ==
    OrElse(PlainFloat(Trim(t)), WithoutUnderscores(t, StripUnderscores(t)))

ItemFields == {"name", "description", "price", "tax"}

\* name: str -- required; null and numbers are not a str.
ValidateName(json) ==
    IF "name" \notin DOMAIN json THEN [ok |-> FALSE, value |-> Null]
    ELSE IF json["name"].kind = "str" THEN [ok |-> TRUE, value |-> json["name"]]
    ELSE [ok |-> FALSE, value |-> Null]

\* description: Optional[str] = None
ValidateDescription(json) ==
    IF "description" \notin DOMAIN json THEN [ok |-> TRUE, value |-> Null]
    ELSE IF json["description"].kind \in {"str", "null"}
         THEN [ok |-> TRUE, value |-> json["description"]]
    ELSE [ok |-> FALSE, value |-> Null]

\* A float field takes a JSON number as it is, infinities and NaN included,
\* a JSON integer as the float of the same value, true and false as 1.0 and
\* 0.0, and converts a string that reads as a float; null, arrays and other
\* strings are refused.
ValidateFloat(v) ==
    IF v.kind \in Floats THEN [ok |-> TRUE, value |-> v]
    ELSE IF v.kind \in {"int", "bool"} THEN [ok |-> TRUE, value |-> Num(2 * v.n)]
    ELSE IF v.kind = "str" THEN ParseFloat(v.s)
    ELSE [ok |-> FALSE, value |-> Null]

\* Mutant: price given a default, as in "price: float = 0".
ValidatePriceDefaulted(json) ==
    IF "price" \notin DOMAIN json THEN [ok |-> TRUE, value |-> Num(0)]
    ELSE ValidateFloat(json["price"])

\* price: float -- required.
ValidatePrice(json) ==
    IF "price" \notin DOMAIN json THEN [ok |-> FALSE, value |-> Null]
    ELSE ValidateFloat(json["price"])

\* Mutant: "tax: float = None", which takes an absent tax and refuses a null.
ValidateTaxNotOptional(json) ==
    IF "tax" \notin DOMAIN json THEN [ok |-> TRUE, value |-> Null]
    ELSE ValidateFloat(json["tax"])

\* tax: Optional[float] = None
ValidateTax(json) ==
    IF "tax" \notin DOMAIN json THEN [ok |-> TRUE, value |-> Null]
    ELSE IF json["tax"].kind = "null" THEN [ok |-> TRUE, value |-> Null]
    ELSE ValidateFloat(json["tax"])

\* The Item schema applied to a request body: the Item, or every offending place.
ValidateItem(body) ==
    IF ~body.sent THEN [errors |-> {"body"}, item |-> EmptyMap]
    ELSE
      LET nm == ValidateName(body.json)
          ds == ValidateDescription(body.json)
          pr == ValidatePrice(body.json)
          tx == ValidateTax(body.json)
          errs == {e \in {"body.name", "body.description", "body.price", "body.tax"} :
                      \/ e = "body.name" /\ ~nm.ok
                      \/ e = "body.description" /\ ~ds.ok
                      \/ e = "body.price" /\ ~pr.ok
                      \/ e = "body.tax" /\ ~tx.ok}
      IN IF errs # {} THEN [errors |-> errs, item |-> EmptyMap]
         ELSE [errors |-> {},
               item |-> [name |-> nm.value, description |-> ds.value,
                         price |-> pr.value, tax |-> tx.value]]

\* item.dict(): a new mapping of the Item's fields.
dict(item) == [k \in ItemFields |-> item[k]]

\* Mutant: "is not None" in place of the truth value.
TruthyNotNone(v) == v.kind \in Floats

\* Python's truth value of an Optional[float]: None and 0.0 are false.
Truthy(v) == v.kind \in Floats /\ ~(v.kind = "num" /\ v.n = 0)

\* a + b on doubles.
Add(a, b) ==
    CASE a.kind = "nan" \/ b.kind = "nan" -> NaN
      [] a.kind = "inf" /\ b.kind = "inf" -> IF a.n = b.n THEN a ELSE NaN
      [] a.kind = "inf" /\ b.kind \in {"num", "big"} -> a
      [] b.kind = "inf" /\ a.kind \in {"num", "big"} -> b
      [] a.kind = "big" /\ b.kind = "big" -> IF a.n = b.n THEN Inf(a.n) ELSE Num(0)
      [] a.kind = "big" /\ b.kind = "num" -> a
      [] a.kind = "num" /\ b.kind = "big" -> b
      [] a.kind = "num" /\ b.kind = "num" -> Num(a.n + b.n)

\* ---------------------------------------------------------------- handlers

HelloWorld == <<"H", "e", "l", "l", "o", " ", "W", "o", "r", "l", "d">>

TheCurrentUser == <<"t", "h", "e", " ", "c", "u", "r", "r", "e", "n", "t", " ", "u", "s", "e", "r">>

root == [message |-> Str(HelloWorld)]

read_item(item_id) == [item_id |-> IntV(item_id)]

read_user_me == [user_id |-> Str(TheCurrentUser)]

\* Mutant: the body of read_user_me pasted into read_user.
read_user_pasted(user_id) == [user_id |-> Str(TheCurrentUser)]

read_user(user_id) == [user_id |-> Str(user_id)]

\* Mutant: the update is left out.
create_item_no_update(item) == [ret |-> dict(item), item |-> item]

\* Mutant: item_dict is the Item's own mapping, not a copy of it.
create_item_aliased(item) ==
    IF Truthy(item["tax"])
    THEN LET m == Update(item, "price_with_tax", Add(item["price"], item["tax"]))
         IN [ret |-> m, item |-> m]
    ELSE [ret |-> item, item |-> item]

\* The handler's two objects, item and item_dict, before and after the update;
\* ret is the value returned, item the Item as the handler leaves it.
create_item(item) ==
    LET heap0 == [item |-> item, item_dict |-> dict(item)]
        heap1 == IF Truthy(heap0.item["tax"])
                 THEN [heap0 EXCEPT !.item_dict =
                          Update(@, "price_with_tax",
                                 Add(heap0.item["price"], heap0.item["tax"]))]
                 ELSE heap0
    IN [ret |-> heap1.item_dict, item |-> heap1.item]

\* Mutant: the tax computation of create_item copied into replace_item.
replace_item_with_tax(item_id, item) ==
    LET d == IF Truthy(item["tax"])
             THEN Update(dict(item), "price_with_tax",
                         Add(item["price"], item["tax"]))
             ELSE dict(item)
    IN Update(d, "item_id", IntV(item_id))

\* {"item_id": item_id, **item.dict()}: a later key replaces an earlier one.
replace_item(item_id, item) ==
    LET d == dict(item)
        first == [item_id |-> IntV(item_id)]
    IN [k \in (DOMAIN first) \cup (DOMAIN d) |->
           IF k \in DOMAIN d THEN d[k] ELSE first[k]]

\* ------------------------------------------------------ serving a request

\* A response: the status, the path operation the request was dispatched to
\* ("none" when there is none), whether its handler was called, the JSON body
\* sent, and the places a 422 reports.
Resp(status, endpoint, called, body, errors) ==
    [status |-> status, endpoint |-> endpoint, called |-> called,
     body |-> body, errors |-> errors]

NoResp == Resp(0, "none", FALSE, EmptyMap, {})

\* What serving a request leaves: the response, the value the handler
\* returned, and the Item the handler was given as the handler leaves it.
Outcome(resp, ret, item) == [resp |-> resp, ret |-> ret, item |-> item]

Rejected(ep, errors) ==
    Outcome(Resp(422, ep, FALSE, EmptyMap, errors), EmptyMap, EmptyMap)

\* The response encoder writes no infinity and no NaN.
Encodable(m) == \A k \in DOMAIN m : m[k].kind \notin {"inf", "nan"}

\* The handler's return value becomes the response; a value that cannot be
\* encoded makes the request fail with 500 Internal Server Error.
Returned(ep, ret, item) ==
    IF Encodable(ret) THEN Outcome(Resp(200, ep, TRUE, ret, {}), ret, item)
    ELSE Outcome(Resp(500, ep, TRUE, EmptyMap, {}), ret, item)

\* The pages FastAPI serves itself; their content is not modelled.
FrameworkEndpoints ==
    {"openapi", "swagger_ui_html", "swagger_ui_redirect", "redoc_html"}

\* The path operations whose signature has the request body, item: Item.
WithBody == {"create_item", "replace_item"}

\* The matched path operation: its parameters are coerced and validated, every
\* failure is collected into one 422, and only then is the handler called.
Call(route, req) ==
    LET ep == route.endpoint
    IN CASE ep \in FrameworkEndpoints -> Returned(ep, EmptyMap, EmptyMap)
         [] ep = "root" -> Returned(ep, root, EmptyMap)
         [] ep = "read_item" ->
              LET id == ParseInt(PathParam(route, req.path, "item_id"))
              IN IF id.ok THEN Returned(ep, read_item(id.value), EmptyMap)
                 ELSE Rejected(ep, {"path.item_id"})
         [] ep = "read_user_me" -> Returned(ep, read_user_me, EmptyMap)
         [] ep = "read_user" ->
              Returned(ep, read_user(PathParam(route, req.path, "user_id")),
                       EmptyMap)
         [] ep = "create_item" ->
              LET v == ValidateItem(req.body)
              IN IF v.errors = {}
                 THEN LET r == create_item(v.item)
                      IN Returned(ep, r.ret, r.item)
                 ELSE Rejected(ep, v.errors)
         [] ep = "replace_item" ->
              LET id == ParseInt(PathParam(route, req.path, "item_id"))
                  v == ValidateItem(req.body)
                  errs == (IF id.ok THEN {} ELSE {"path.item_id"}) \cup v.errors
              IN IF errs = {}
                 THEN Returned(ep, replace_item(id.value, v.item), v.item)
                 ELSE Rejected(ep, errs)

\* The answer the router gives itself when no route takes the request.
Unrouted(d) ==
    CASE d.kind = "method_not_allowed" ->
              Outcome(Resp(405, "none", FALSE, EmptyMap, {}), EmptyMap, EmptyMap)
      [] d.kind = "redirect" ->
              Outcome(Resp(307, "none", FALSE, EmptyMap, {}), EmptyMap, EmptyMap)
      [] d.kind = "not_found" ->
              Outcome(Resp(404, "none", FALSE, EmptyMap, {}), EmptyMap, EmptyMap)

\* One request served from arrival to response against the route table rs.
Serve(rs, req) ==
    LET d == Dispatch(rs, req.method, req.path)
    IN IF d.kind = "endpoint" THEN Call(rs[d.route], req) ELSE Unrouted(d)

\* ----------------------------------------------------------- the requests

\* Segments that tell the integer coercion from the text of an integer.
CoercedSegments ==
    {<<"5", ".", "0">>, <<"-", "5", ".", "0">>, <<" ", "5">>, <<"5", " ">>,
     <<"5", "_", "0">>, <<"5", ".", "5">>, <<"+", "5">>,
     <<"\t", "5">>, <<"5", "\n">>, <<" ", "5", "">>,
     <<"0", "-", "5">>, <<"0", "_", "-", "5">>, <<"0", "-", "5", "_", "0">>,
     <<"+", "0", "-", "5">>, <<"+", "-", "5">>, <<"+", "-", "5", ".", "0">>,
     <<"-", "+", "5">>, <<"-", "_", "5">>, <<"-", "0", "_", "5">>,
     <<"0", "_", "0">>, <<"0", "_", "0", "_">>, <<"0", "_", "_", "5">>,
     <<"5", "_", "_", "0">>, <<"0", "_", "0", ".", "0">>, <<"0", "_", ".", "0">>,
     <<"-", "5", ".">>, <<"5", ".", "0", "0">>, <<"5", ".", "0", "_", "0">>,
     <<"0", "-", "0", "5">>, <<"0", "-", "0", "0">>, <<"0", "_", "-", "0", "5">>,
     <<"0", "-", "0">>, <<"-", "0", "5">>, <<"-", "0", "-", "5">>,
     <<"U+2003", "5">>, <<"5", "U+3000">>, <<"U+2028", "-", "5", ".", "0", "U+1680">>,
     <<"5", "U+2003", "5">>}

Segments == Words(MaxSegLen) \cup {items, users, me} \cup CoercedSegments

PathsOver(segs) ==
    {<<EmptySeg>>}
      \cup {<<f>> : f \in {items, users}}
      \cup {<<f, t>> : f \in {items, users}, t \in segs}
      \cup {<<f, t, EmptySeg>> : f \in {items, users}, t \in segs}

\* The paths of the pages FastAPI serves itself, and one with a slash added.
FrameworkPaths ==
    {<<openapi_json>>, <<docs>>, <<docs, oauth2_redirect>>, <<redoc>>,
     <<docs, EmptySeg>>}

Paths == PathsOver(Segments) \cup FrameworkPaths

foo == <<"f", "o", "o">>

JsonRecords ==
    [name : {Null, Str(foo), Num(4), Bool(TRUE)},
     description : {Null, Str(<<"d">>), Num(4)},
     price : {Num(20), Num(4), Big(1), Inf(1), NaN, IntV(5), Bool(TRUE), List,
              Str(<<"a">>), Str(<<"5">>), Str(<<"5", ".", "5">>),
              Str(<<"1", "e", "1">>), Str(<<"5", "a">>),
              Str(<<"U+2003", "1", ".", "5">>)},
     tax : {Null, Num(0), Num(3), Num(0 - 3), Big(1), Big(0 - 1), Inf(1), NaN,
            IntV(0), Bool(TRUE), Bool(FALSE), List,
            Str(<<"a">>), Str(<<"1", ".", "5">>), Str(<<".", "5">>),
            Str(<<"i", "n", "f">>), Str(<<"n", "n">>),
            Str(<<"\t", "1", ".", "5", "\n">>),
            Str(<<"U+2003", "1", ".", "5", "U+2003">>)}]

\* JSON objects with any of the four keys absent.
Jsons == {[k \in D |-> r[k]] : D \in SUBSET ItemFields, r \in JsonRecords}

Unsent == [sent |-> FALSE, json |-> EmptyMap]

Sent(j) == [sent |-> TRUE, json |-> j]

Bodies == {Unsent} \cup {Sent(j) : j \in Jsons}

\* The bodies sent to the paths that take no body.
FewBodies ==
    {Unsent, Sent([name |-> Str(foo), price |-> Num(4)]), Sent([name |-> Null])}

\* The paths every body is sent to.
BodyPaths == {<<items, EmptySeg>>, <<items, <<"5">>>>, <<items, <<"a">>>>}

Req(method, path, body) == [method |-> method, path |-> path, body |-> body]

Requests ==
    {Req(m, p, Unsent) : m \in {"GET", "HEAD"}, p \in Paths}
      \cup {Req(m, p, b) : m \in {"POST", "PUT"}, p \in Paths, b \in FewBodies}
      \cup {Req(m, p, b) : m \in {"POST", "PUT"}, p \in BodyPaths, b \in Bodies}

NoReq == Req("", <<>>, Unsent)

\* A few requests of every kind, for the runs with several requests in flight.
ConcRequests ==
    {Req("GET", <<items, <<"5">>>>, Unsent),
     Req("GET", <<items, <<"0", "-", "0", "5">>>>, Unsent),
     Req("GET", <<users, me>>, Unsent),
     Req("POST", <<items, EmptySeg>>,
         Sent([name |-> Str(foo), price |-> Num(20), tax |-> Num(3)])),
     Req("POST", <<items, EmptySeg>>,
         Sent([name |-> Str(foo), price |-> IntV(5),
               tax |-> Str(<<"U+2003", "1", ".", "5", "U+2003">>)])),
     Req("POST", <<items, EmptySeg>>, Sent([name |-> Str(foo)])),
     Req("POST", <<items, EmptySeg>>,
         Sent([name |-> Num(4), price |-> Str(<<"5", "a">>), tax |-> Bool(TRUE)])),
     Req("PUT", <<items, <<"a">>>>, Sent([price |-> Str(<<"a">>)])),
     Req("PUT", <<items, <<"5">>>>,
         Sent([name |-> Str(foo), price |-> Num(4), tax |-> Num(3)]))}

\* The requests tried against every order of registration.
ProbeRequests ==
    LET paths == PathsOver({EmptySeg, me, <<"5">>, <<"a">>}) \cup FrameworkPaths
        body == Sent([name |-> Str(foo), price |-> Num(4)])
    IN {Req(m, p, Unsent) : m \in {"GET", "HEAD"}, p \in paths}
         \cup {Req(m, p, body) : m \in {"POST", "PUT"}, p \in paths}

\* ------------------------------------------------------------- the server

\* A request being served: where it is, the route the router gave it to (0
\* when none), and what serving it has left so far.
Idle ==
    [phase |-> "idle", req |-> NoReq, route |-> 0, resp |-> NoResp,
     ret |-> EmptyMap, item |-> EmptyMap]

Loaded == Len(routes) = Len(FrameworkRoutes) + Len(Decorators)

\* app = FastAPI()
Init ==
    /\ routes = FrameworkRoutes
    /\ slots = [i \in 1..MaxReq |-> Idle]

\* Importing main.py runs the next decorator, which appends its route.
Register ==
    /\ ~Loaded
    /\ routes' = Append(routes, Decorators[Len(routes) - Len(FrameworkRoutes) + 1])
    /\ UNCHANGED slots

\* A request arrives while no other is in flight.
ReceiveAlone ==
    /\ Loaded
    /\ \A i \in 1..MaxReq : slots[i].phase = "idle"
    /\ \E req \in Requests :
          slots' = [slots EXCEPT ![1] =
                       [Idle EXCEPT !.phase = "received", !.req = req]]
    /\ UNCHANGED routes

\* A request arrives while others, of the same few, may be in flight.
Receive(i) ==
    /\ Loaded
    /\ slots[i].phase = "idle"
    /\ \A k \in 1..MaxReq : slots[k].req \in ConcRequests \cup {NoReq}
    /\ \E req \in ConcRequests :
          slots' = [slots EXCEPT ![i] =
                       [Idle EXCEPT !.phase = "received", !.req = req]]
    /\ UNCHANGED routes

\* The decorators run in some other order: any decorator not yet run is next.
RegisterAny ==
    /\ ~Loaded
    /\ \E d \in 1..Len(Decorators) :
          /\ \A j \in 1..Len(routes) : routes[j] # Decorators[d]
          /\ routes' = Append(routes, Decorators[d])
    /\ UNCHANGED slots

\* A probe request arrives while no other is in flight.
ReceiveProbe ==
    /\ Loaded
    /\ \A i \in 1..MaxReq : slots[i].phase = "idle"
    /\ \E req \in ProbeRequests :
          slots' = [slots EXCEPT ![1] =
                       [Idle EXCEPT !.phase = "received", !.req = req]]
    /\ UNCHANGED routes

\* The router picks the route.  A path operation that takes a body then waits
\* for the body to arrive; any other request is served to its response without
\* giving up control.
Route(i) ==
    /\ slots[i].phase = "received"
    /\ LET req == slots[i].req
           d == Dispatch(routes, req.method, req.path)
       IN IF d.kind = "endpoint" /\ routes[d.route].endpoint \in WithBody
          THEN slots' = [slots EXCEPT ![i] = [@ EXCEPT !.phase = "routed",
                                                       !.route = d.route]]
          ELSE LET r == IF d.kind = "endpoint" THEN Call(routes[d.route], req)
                        ELSE Unrouted(d)
               IN slots' = [slots EXCEPT ![i] = [@ EXCEPT !.phase = "responded",
                                                          !.route = d.route,
                                                          !.resp = r.resp,
                                                          !.ret = r.ret,
                                                          !.item = r.item]]
    /\ UNCHANGED routes

\* The body has arrived: the parameters are validated, the handler is called
\* and its return value encoded.  The handlers never await.
Handle(i) ==
    /\ slots[i].phase = "routed"
    /\ LET r == Call(routes[slots[i].route], slots[i].req)
       IN slots' = [slots EXCEPT ![i] = [@ EXCEPT !.phase = "responded",
                                                  !.resp = r.resp,
                                                  !.ret = r.ret,
                                                  !.item = r.item]]
    /\ UNCHANGED routes

\* The response is sent and the request's objects are dropped.
Complete(i) ==
    /\ slots[i].phase = "responded"
    /\ slots' = [slots EXCEPT ![i] = Idle]
    /\ UNCHANGED routes

Next ==
    \/ Register
    \/ ReceiveAlone
    \/ \E i \in 1..MaxReq : Route(i)
    \/ \E i \in 1..MaxReq : Handle(i)
    \/ \E i \in 1..MaxReq : Complete(i)

Spec == Init /\ [][Next]_vars

\* Several requests in flight at once, or any one request alone.
NextConc ==
    \/ Register
    \/ ReceiveAlone
    \/ \E i \in 1..MaxReq : Receive(i)
    \/ \E i \in 1..MaxReq : Route(i)
    \/ \E i \in 1..MaxReq : Handle(i)
    \/ \E i \in 1..MaxReq : Complete(i)

SpecConc == Init /\ [][NextConc]_vars

\* The same path operations registered in any order.
NextAnyOrder ==
    \/ RegisterAny
    \/ ReceiveProbe
    \/ \E i \in 1..MaxReq : Route(i)
    \/ \E i \in 1..MaxReq : Handle(i)
    \/ \E i \in 1..MaxReq : Complete(i)

SpecAnyOrder == Init /\ [][NextAnyOrder]_vars

\* ------------------------------------------------------------- properties

Done(i) == slots[i].phase = "responded"

Sl == 1..MaxReq

DigitChar(d) ==
    CASE d = 0 -> "0" [] d = 1 -> "1" [] d = 2 -> "2" [] d = 3 -> "3"
      [] d = 4 -> "4" [] d = 5 -> "5" [] d = 6 -> "6" [] d = 7 -> "7"
      [] d = 8 -> "8" [] d = 9 -> "9"

RECURSIVE NatText(_)
NatText(n) ==
    IF n < 10 THEN <<DigitChar(n)>>
    ELSE Append(NatText(n \div 10), DigitChar(n % 10))

\* The decimal text of an integer.
Decimal(n) == IF n < 0 THEN <<"-">> \o NatText(0 - n) ELSE NatText(n)

ItemIds == (0 - MaxItemId)..MaxItemId

\* -?[0-9]+
IntegerText(t) ==
    \E k \in {0, 1} :
        /\ Len(t) > k
        /\ k = 1 => t[1] = "-"
        /\ \A i \in (k + 1)..Len(t) : t[i] \in Digits

\* ------------------------------------------- the texts read as numbers

\* What white space at the two ends of the text, any amount of it, leaves.
Cores(t) ==
    {SubSeq(t, p[1], p[2]) :
        p \in {q \in (1..(Len(t) + 1)) \X (0..Len(t)) :
                 /\ q[1] <= q[2] + 1
                 /\ \A k \in 1..(q[1] - 1) : t[k] \in Spaces
                 /\ \A k \in (q[2] + 1)..Len(t) : t[k] \in Spaces}}

\* The text behind one sign in front of it.
BehindSign(u) == IF Len(u) > 0 /\ u[1] \in {"+", "-"} THEN Tail(u) ELSE u

\* Nothing, or a point followed by one or more zeros and nothing else.
ZeroFraction(f) ==
    \/ f = <<>>
    \/ Len(f) >= 2 /\ f[1] = "." /\ \A k \in 2..Len(f) : f[k] = "0"

\* Digits that begin with a non-zero one, single underscores between them.
Grouped(m) ==
    /\ Len(m) > 0
    /\ m[1] \in Digits \ {"0"}
    /\ m[Len(m)] # "_"
    /\ \A k \in 1..Len(m) : m[k] \in Digits \cup {"_"}
    /\ \A k \in 1..(Len(m) - 1) : ~(m[k] = "_" /\ m[k + 1] = "_")

\* Nothing, or zeros and underscores that begin with a zero.
ZerosInFront(z) ==
    /\ z # <<>> => z[1] = "0"
    /\ \A k \in 1..Len(z) : z[k] \in {"0", "_"}

\* Zeros and underscores that begin and end with a zero.
ZerosOnly(z) == Len(z) > 0 /\ ZerosInFront(z) /\ z[Len(z)] = "0"

Part(u, a, b) == SubSeq(u, a, b)

\* Form (a): zeros in front, grouped digits, a fraction of zeros.
DigitsForm(b) ==
    \E a \in 0..Len(b) : \E c \in (a + 1)..Len(b) :
        /\ ZerosInFront(Part(b, 1, a))
        /\ Grouped(Part(b, a + 1, c))
        /\ ZeroFraction(Part(b, c + 1, Len(b)))

\* Form (b): zeros only, a fraction of zeros.
ZeroForm(b) ==
    \E a \in 1..Len(b) :
        /\ ZerosOnly(Part(b, 1, a))
        /\ ZeroFraction(Part(b, a + 1, Len(b)))

\* "0" or grouped digits, with or without one underscore in front.
MinusDigits(m) ==
    \/ m = <<"0">>
    \/ Grouped(m)
    \/ Len(m) > 1 /\ m[1] = "_" /\ (Tail(m) = <<"0">> \/ Grouped(Tail(m)))

\* Form (c), behind a "+" if there is one: zeros in front, a "-", then "0" or
\* grouped digits, a fraction of zeros.
MinusForm(v) ==
    \E a \in 1..Len(v) : \E c \in (a + 2)..Len(v) :
        /\ ZerosInFront(Part(v, 1, a))
        /\ v[a + 1] = "-"
        /\ MinusDigits(Part(v, a + 2, c))
        /\ ZeroFraction(Part(v, c + 1, Len(v)))

\* The forms of text the int coercion takes for an integer, white space at the
\* ends apart: behind an optional sign form (a) or (b), or behind an optional
\* "+" form (c).
IntegerCore(u) ==
    \/ DigitsForm(BehindSign(u))
    \/ ZeroForm(BehindSign(u))
    \/ MinusForm(IF Len(u) > 0 /\ u[1] = "+" THEN Tail(u) ELSE u)

IntegerForm(t) == \E u \in Cores(t) : IntegerCore(u)

IsDigit(c) == c \in Digits

\* The integer such a text spells: the digits in front of the point, negative
\* when there is a "-".
SpelledValue(t) ==
    IF \E k \in 1..Len(t) : t[k] = "-"
    THEN 0 - DigitsValue(SelectSeq(Before(t, FirstIndex(t, ".")), IsDigit))
    ELSE DigitsValue(SelectSeq(Before(t, FirstIndex(t, ".")), IsDigit))

\* Digits with at most one point among them.
Mantissa(m) ==
    /\ \E k \in 1..Len(m) : m[k] \in Digits
    /\ \A k \in 1..Len(m) : m[k] \in Digits \cup {"."}
    /\ \A k, l \in 1..Len(m) : (m[k] = "." /\ m[l] = ".") => k = l

\* A float without its sign, in lower case: inf, infinity, nan, or a mantissa
\* with or without "e", an optional sign and digits behind it.
UnsignedFloat(r) ==
    \/ r \in {<<"i", "n", "f">>, <<"i", "n", "f", "i", "n", "i", "t", "y">>,
              <<"n", "a", "n">>}
    \/ Mantissa(r)
    \/ \E k \in 2..(Len(r) - 1) :
          /\ r[k] = "e"
          /\ Mantissa(Part(r, 1, k - 1))
          /\ IsDigits(BehindSign(Part(r, k + 1, Len(r))))

\* Some, single underscores, none at an end.
Underscored(t) ==
    /\ \E k \in 1..Len(t) : t[k] = "_"
    /\ t[1] # "_"
    /\ t[Len(t)] # "_"
    /\ \A k \in 1..(Len(t) - 1) : ~(t[k] = "_" /\ t[k + 1] = "_")

\* The forms of text a float field takes for a float: a float in either case
\* with white space at the ends, or one with single underscores inside it.
FloatForm(t) ==
    \/ \E u \in Cores(t) : UnsignedFloat(Lower(BehindSign(u)))
    \/ Underscored(t) /\ UnsignedFloat(Lower(BehindSign(Without(t, "_"))))

\* The floats the strings of the request bodies spell.
FloatSpelled(t) ==
    CASE t = <<"5">> -> Num(10)
      [] t = <<"5", ".", "5">> -> Num(11)
      [] t = <<"1", "e", "1">> -> Num(20)
      [] t = <<"1", ".", "5">> -> Num(3)
      [] t = <<".", "5">> -> Num(1)
      [] t = <<"i", "n", "f">> -> Inf(1)
      [] t = <<"\t", "1", ".", "5", "\n">> -> Num(3)
      [] t = <<"U+2003", "1", ".", "5">> -> Num(3)
      [] t = <<"U+2003", "1", ".", "5", "U+2003">> -> Num(3)
      [] OTHER -> Null

\* The float a JSON value is as a price or a tax: a number itself, an integer
\* the float equal to it, true 1.0 and false 0.0, a string the float it spells.
FloatOf(v) ==
    CASE v.kind \in Floats -> v
      [] v.kind \in {"int", "bool"} -> Num(2 * v.n)
      [] v.kind = "str" -> FloatSpelled(v.s)
      [] OTHER -> Null

\* A value a float field takes: a number, and unless strict a boolean or a
\* string of the form of a float.
Convertible(v, strict) ==
    \/ v.kind \in Floats \cup {"int"}
    \/ ~strict /\ v.kind = "bool"
    \/ ~strict /\ v.kind = "str" /\ FloatForm(v.s)

\* The places of a body that break the Item schema: a required field missing,
\* or a value that is not of the field's type and, unless strict, does not
\* convert to it.
Violations(body, strict) ==
    IF ~body.sent THEN {"body"}
    ELSE LET j == body.json
         IN {e \in {"body.name", "body.description", "body.price", "body.tax"} :
               \/ /\ e = "body.name"
                  /\ ("name" \notin DOMAIN j \/ j["name"].kind # "str")
               \/ /\ e = "body.price"
                  /\ ("price" \notin DOMAIN j \/ ~Convertible(j["price"], strict))
               \/ /\ e = "body.description"
                  /\ "description" \in DOMAIN j
                  /\ j["description"].kind \notin {"str", "null"}
               \/ /\ e = "body.tax"
                  /\ "tax" \in DOMAIN j
                  /\ j["tax"].kind # "null"
                  /\ ~Convertible(j["tax"], strict)}

\* A body that is a valid Item.
ValidBody(body) == body.sent /\ Violations(body, FALSE) = {}

\* The Item a valid body is: the optional fields null when absent, price and
\* tax the floats their values are.
ExpectedItem(j) ==
    [name |-> j["name"],
     description |-> IF "description" \in DOMAIN j THEN j["description"] ELSE Null,
     price |-> FloatOf(j["price"]),
     tax |-> IF "tax" \in DOMAIN j /\ j["tax"].kind # "null"
             THEN FloatOf(j["tax"]) ELSE Null]

\* A tax that is present, not null and not zero.
NonZero(v) == v.kind \in Floats /\ v # Num(0)

\* A completed POST /items/ with a valid Item.
CreatedValid(i) ==
    /\ Done(i)
    /\ slots[i].req.method = "POST"
    /\ slots[i].req.path = <<items, EmptySeg>>
    /\ ValidBody(slots[i].req.body)

\* The handler's return value went out as the response, or, holding a value
\* the encoder does not write, made the response a 500.
Answered(i) ==
    /\ slots[i].resp.called
    /\ Encodable(slots[i].ret)
         => slots[i].resp.status = 200 /\ slots[i].resp.body = slots[i].ret
    /\ ~Encodable(slots[i].ret)
         => slots[i].resp.status = 500 /\ slots[i].resp.body = EmptyMap

\* C1: every GET /users/me is answered by read_user_me with
\* {user_id: "the current user"}, never by read_user with user_id "me".
C1_UsersMe ==
    \A i \in Sl :
        (Done(i) /\ slots[i].req.method = "GET" /\ slots[i].req.path = <<users, me>>)
          => /\ slots[i].resp.status = 200
             /\ slots[i].resp.endpoint = "read_user_me"
             /\ slots[i].resp.called
             /\ slots[i].resp.body = [user_id |-> Str(TheCurrentUser)]
             /\ slots[i].resp.body # [user_id |-> Str(me)]

C1_Witness ==
    \E i \in Sl :
        /\ Done(i)
        /\ slots[i].req.method = "GET"
        /\ slots[i].req.path = <<users, me>>
        /\ slots[i].resp.endpoint = "read_user_me"

\* C2: for a POST /items/ with a valid Item whose tax is present, not null
\* and not zero, create_item is given the Item and returns name, description,
\* price and tax with the Item's values and price_with_tax equal to
\* price + tax, and that mapping is the response (the response is a 500
\* instead when the mapping holds an infinity or a NaN).
C2_PriceWithTax ==
    \A i \in Sl :
        (CreatedValid(i) /\ NonZero(ExpectedItem(slots[i].req.body.json)["tax"]))
          => LET e == ExpectedItem(slots[i].req.body.json)
                 m == slots[i].ret
             IN /\ slots[i].resp.endpoint = "create_item"
                /\ Answered(i)
                /\ slots[i].item = e
                /\ DOMAIN m = ItemFields \cup {"price_with_tax"}
                /\ \A k \in ItemFields : m[k] = e[k]
                /\ m["price_with_tax"] = Add(e["price"], e["tax"])
                /\ (e["price"].kind = "num" /\ e["tax"].kind = "num")
                     => /\ slots[i].resp.status = 200
                        /\ slots[i].resp.body["price_with_tax"] =
                               Num(e["price"].n + e["tax"].n)

\* price = 10.0 and tax = 1.5 gave price_with_tax = 11.5.
C2_Witness ==
    \E i \in Sl :
        /\ CreatedValid(i)
        /\ slots[i].req.body.json["price"] = Num(20)
        /\ "tax" \in DOMAIN slots[i].req.body.json
        /\ slots[i].req.body.json["tax"] = Num(3)
        /\ slots[i].resp.status = 200
        /\ slots[i].resp.body["price_with_tax"] = Num(23)

\* C3: for a POST /items/ with a valid Item whose tax is absent, null or zero,
\* create_item returns exactly name, description, price and tax;
\* price_with_tax is a key of the result if and only if tax is truthy.
C3_NoTaxNoKey ==
    \A i \in Sl :
        CreatedValid(i)
          => LET e == ExpectedItem(slots[i].req.body.json)
                 m == slots[i].ret
             IN /\ slots[i].resp.endpoint = "create_item"
                /\ Answered(i)
                /\ slots[i].item = e
                /\ ("price_with_tax" \in DOMAIN m) <=> NonZero(e["tax"])
                /\ ~NonZero(e["tax"])
                     => /\ DOMAIN m = ItemFields
                        /\ \A k \in ItemFields : m[k] = e[k]
                        /\ e["price"].kind \in {"num", "big"}
                             => /\ slots[i].resp.status = 200
                                /\ slots[i].resp.body = m

\* A tax of 0 gave no price_with_tax.
C3_Witness ==
    \E i \in Sl :
        /\ CreatedValid(i)
        /\ "tax" \in DOMAIN slots[i].req.body.json
        /\ slots[i].req.body.json["tax"] = Num(0)
        /\ slots[i].resp.status = 200
        /\ DOMAIN slots[i].resp.body = ItemFields

\* C4: for a PUT /items/{item_id} with an integer item_id and a valid Item,
\* replace_item returns exactly item_id, name, description, price and tax,
\* with absent optional fields null, and never price_with_tax.
C4_ReplaceItem ==
    \A i \in Sl : \A n \in ItemIds :
        (/\ Done(i)
         /\ slots[i].req.method = "PUT"
         /\ slots[i].req.path = <<items, Decimal(n)>>
         /\ ValidBody(slots[i].req.body))
          => LET e == ExpectedItem(slots[i].req.body.json)
                 m == slots[i].ret
             IN /\ slots[i].resp.endpoint = "replace_item"
                /\ Answered(i)
                /\ slots[i].item = e
                /\ DOMAIN m = ItemFields \cup {"item_id"}
                /\ m["item_id"] = IntV(n)
                /\ \A k \in ItemFields : m[k] = e[k]
                /\ (\A k \in ItemFields : e[k].kind \notin {"inf", "nan"})
                     => /\ slots[i].resp.status = 200
                        /\ slots[i].resp.body = m

\* item_id = 5 with {name: "foo", price: 2.0, tax: 1.5} gave the five keys,
\* tax 1.5 among them, and no price_with_tax.
C4_Witness ==
    \E i \in Sl :
        /\ Done(i)
        /\ slots[i].req = Req("PUT", <<items, <<"5">>>>,
                              Sent([name |-> Str(foo), price |-> Num(4),
                                    tax |-> Num(3)]))
        /\ slots[i].resp.body =
               [item_id |-> IntV(5), name |-> Str(foo), description |-> Null,
                price |-> Num(4), tax |-> Num(3)]

\* A completed GET /items/{segment}.
ItemRead(i) ==
    /\ Done(i)
    /\ slots[i].req.method = "GET"
    /\ Len(slots[i].req.path) = 2
    /\ slots[i].req.path[1] = items

\* GET /items/{n} is answered by read_item with {item_id: n}.
ReadsInteger(i) ==
    \A n \in ItemIds :
        slots[i].req.path[2] = Decimal(n)
          => /\ slots[i].resp.status = 200
             /\ slots[i].resp.endpoint = "read_item"
             /\ slots[i].resp.body = [item_id |-> IntV(n)]

\* The request was refused and read_item gave no value.
Refused(i) ==
    /\ slots[i].resp.status \in {405, 422}
    /\ ~slots[i].resp.called
    /\ slots[i].resp.body = EmptyMap
    /\ slots[i].ret = EmptyMap

\* The original C5: every segment that is not -?[0-9]+ is rejected.
C5_Original ==
    \A i \in Sl :
        ItemRead(i)
          => /\ ReadsInteger(i)
             /\ ~IntegerText(slots[i].req.path[2]) => Refused(i)

\* C5, amended: GET /items/{n} for an integer n is answered by read_item with
\* {item_id: n}.  A segment is read as an integer exactly when, white space at
\* its ends apart, it is of one of three forms: (a) behind an optional sign,
\* zeros and underscores beginning with a zero or nothing, digits beginning
\* with a non-zero one with single underscores between them, and a point with
\* one or more zeros behind it or nothing; (b) behind an optional sign, zeros
\* and underscores beginning and ending with a zero, and such a fraction or
\* nothing; (c) behind an optional "+", zeros and underscores beginning with a
\* zero, a "-", an optional underscore, "0" or digits as in (a), and such a
\* fraction or nothing.  It is then answered with the integer its digits
\* spell, negative when there is a "-"; every other segment is rejected and
\* read_item is not called.
C5_ReadItem ==
    \A i \in Sl :
        ItemRead(i)
          => LET t == slots[i].req.path[2]
             IN /\ ReadsInteger(i)
                /\ IntegerForm(t)
                     => /\ slots[i].resp.status = 200
                        /\ slots[i].resp.endpoint = "read_item"
                        /\ slots[i].resp.called
                        /\ slots[i].resp.body = [item_id |-> IntV(SpelledValue(t))]
                /\ ~IntegerForm(t) => Refused(i)
                /\ t \in {<<" ", "5">>, <<"5", " ">>, <<"\t", "5">>,
                          <<"U+2003", "5">>, <<"5", ".", "0">>}
                     => slots[i].resp.body = [item_id |-> IntV(5)]
                /\ t = <<"5", "_", "0">>
                     => slots[i].resp.body = [item_id |-> IntV(50)]
                /\ t = <<"0", "-", "5">>
                     => slots[i].resp.body = [item_id |-> IntV(0 - 5)]
                /\ t \in {<<"5", ".">>, <<"+", "-", "5">>, <<"0", "_">>,
                          <<"-", "_", "5">>, <<"0", "-", "0", "5">>}
                     => slots[i].resp.status = 422

\* GET /items/5.5 was rejected with the offending parameter named.
C5_Witness ==
    \E i \in Sl :
        /\ ItemRead(i)
        /\ slots[i].req.path = <<items, <<"5", ".", "5">>>>
        /\ slots[i].resp.status = 422

\* The answers the requests in flight together get when alone, read off
\* main.py.
Alone(req) ==
    CASE req = Req("GET", <<items, <<"5">>>>, Unsent) ->
           Resp(200, "read_item", TRUE, [item_id |-> IntV(5)], {})
      [] req = Req("GET", <<items, <<"0", "-", "0", "5">>>>, Unsent) ->
           Resp(422, "read_item", FALSE, EmptyMap, {"path.item_id"})
      [] req = Req("GET", <<users, me>>, Unsent) ->
           Resp(200, "read_user_me", TRUE, [user_id |-> Str(TheCurrentUser)], {})
      [] req = Req("POST", <<items, EmptySeg>>,
                   Sent([name |-> Str(foo), price |-> Num(20), tax |-> Num(3)])) ->
           Resp(200, "create_item", TRUE,
                [name |-> Str(foo), description |-> Null, price |-> Num(20),
                 tax |-> Num(3), price_with_tax |-> Num(23)], {})
      [] req = Req("POST", <<items, EmptySeg>>,
                   Sent([name |-> Str(foo), price |-> IntV(5),
                         tax |-> Str(<<"U+2003", "1", ".", "5", "U+2003">>)])) ->
           Resp(200, "create_item", TRUE,
                [name |-> Str(foo), description |-> Null, price |-> Num(10),
                 tax |-> Num(3), price_with_tax |-> Num(13)], {})
      [] req = Req("POST", <<items, EmptySeg>>, Sent([name |-> Str(foo)])) ->
           Resp(422, "create_item", FALSE, EmptyMap, {"body.price"})
      [] req = Req("POST", <<items, EmptySeg>>,
                   Sent([name |-> Num(4), price |-> Str(<<"5", "a">>),
                         tax |-> Bool(TRUE)])) ->
           Resp(422, "create_item", FALSE, EmptyMap, {"body.name", "body.price"})
      [] req = Req("PUT", <<items, <<"a">>>>, Sent([price |-> Str(<<"a">>)])) ->
           Resp(422, "replace_item", FALSE, EmptyMap,
                {"path.item_id", "body.name", "body.price"})
      [] req = Req("PUT", <<items, <<"5">>>>,
                   Sent([name |-> Str(foo), price |-> Num(4), tax |-> Num(3)])) ->
           Resp(200, "replace_item", TRUE,
                [item_id |-> IntV(5), name |-> Str(foo), description |-> Null,
                 price |-> Num(4), tax |-> Num(3)], {})

\* A completed POST /items/ or PUT /items/{segment}.
ItemRequest(i) ==
    /\ Done(i)
    /\ \/ slots[i].req.method = "POST" /\ slots[i].req.path = <<items, EmptySeg>>
       \/ /\ slots[i].req.method = "PUT"
          /\ Len(slots[i].req.path) = 2
          /\ slots[i].req.path[1] = items
          /\ slots[i].req.path[2] # EmptySeg

\* The request was answered 422 naming the places, its handler was not
\* called, and every other request answered got the answer it gets alone.
RejectedAlone(i, places) ==
    /\ slots[i].resp.status = 422
    /\ ~slots[i].resp.called
    /\ slots[i].resp.body = EmptyMap
    /\ slots[i].ret = EmptyMap
    /\ slots[i].item = EmptyMap
    /\ places \subseteq slots[i].resp.errors
    /\ \A k \in Sl \ {i} : Done(k) => slots[k].resp = Alone(slots[k].req)

\* The original C7: a value that is not of the field's type is of the wrong
\* type, a string or a boolean given for a float included.
C7_Original ==
    \A i \in Sl :
        (ItemRequest(i) /\ Violations(slots[i].req.body, TRUE) # {})
          => RejectedAlone(i, Violations(slots[i].req.body, TRUE))

\* C7, amended: a POST /items/ or PUT /items/{item_id} whose body breaks the
\* Item schema (name or price missing, or a value that is not of the field's
\* type and does not convert to it: for price and tax anything but a number,
\* a boolean, or a string of the form of a float) is answered 422 naming
\* every offending place, its handler is not called, and every other request
\* in flight gets the answer it gets alone.
C7_BodyRejected ==
    \A i \in Sl :
        (ItemRequest(i) /\ Violations(slots[i].req.body, FALSE) # {})
          => RejectedAlone(i, Violations(slots[i].req.body, FALSE))

\* A POST /items/ without price was rejected while another request had been
\* answered by its handler.
C7_Witness ==
    \E i, k \in Sl :
        /\ ItemRequest(i)
        /\ slots[i].req.body = Sent([name |-> Str(foo)])
        /\ slots[i].resp.status = 422
        /\ slots[i].resp.errors = {"body.price"}
        /\ Done(k)
        /\ slots[k].resp.called

\* The value is of the field's own type, so that the schema hands on the
\* very object it is given.
HandedOn(v, k) ==
    CASE k = "name" -> v.kind = "str"
      [] k = "description" -> v.kind \in {"str", "null"}
      [] k \in {"price", "tax"} -> v.kind \in Floats \cup {"null"}

\* Python's == between the values of two mappings: the same object, or equal
\* values, which a NaN is not even to itself.
PyEq(v, w, same) == same \/ (v = w /\ v.kind # "nan")

\* The routes the request matches as the claim words it: the method is one of
\* the route's, a literal segment is the segment's text, and a placeholder
\* takes any segment (empty too, when emptyToo) in its position.
ClaimHits(req, emptyToo) ==
    {j \in 1..Len(routes) :
        /\ req.method \in routes[j].methods
        /\ Len(routes[j].pattern) = Len(req.path)
        /\ \A k \in 1..Len(req.path) :
              IF routes[j].pattern[k].param = ""
              THEN routes[j].pattern[k].text = req.path[k]
              ELSE emptyToo \/ req.path[k] # EmptySeg}

Position(r) == CHOOSE j \in 1..Len(routes) : routes[j] = r

\* /users/{user_id} was registered before /users/me.
Shadowed == Loaded /\ Position(read_user_route) < Position(read_user_me_route)

FirstMatch(i, emptyToo) ==
    LET hits == ClaimHits(slots[i].req, emptyToo)
    IN /\ hits # {}
         => \E j \in hits :
               /\ \A k \in hits : j <= k
               /\ slots[i].route = j
               /\ slots[i].resp.endpoint = routes[j].endpoint
       /\ hits = {} => slots[i].resp.endpoint = "none"
\* request gets alone, equal requests get equal responses, the routes stay as
\* registered, and the Item a handler was given is still the Item the body
\* is, without price_with_tax even where the response has it.
C10_Stateless ==
    /\ Loaded => routes = AppRoutes
    /\ \A i \in Sl :
          Done(i)
            => /\ slots[i].req \in ConcRequests
                    => slots[i].resp = Alone(slots[i].req)
               /\ \A k \in Sl :
                     (Done(k) /\ slots[k].req = slots[i].req)
                       => /\ slots[k].resp = slots[i].resp
                          /\ slots[k].ret = slots[i].ret
                          /\ slots[k].item = slots[i].item
               /\ (slots[i].resp.called /\ slots[i].resp.endpoint \in WithBody)
                    => /\ slots[i].item = ExpectedItem(slots[i].req.body.json)
                       /\ DOMAIN slots[i].item = ItemFields
                       /\ "price_with_tax" \notin DOMAIN slots[i].item

\* Three requests were answered while all in flight, one of them by
\* create_item with price_with_tax in the response and not in the Item, one
\* rejected.
C10_Witness ==
    \E i, k, l \in Sl :
        /\ i # k /\ k # l /\ i # l
        /\ Done(i) /\ Done(k) /\ Done(l)
        /\ slots[k].req # slots[i].req
        /\ slots[i].resp.endpoint = "create_item"
        /\ "price_with_tax" \in DOMAIN slots[i].resp.body
        /\ "price_with_tax" \notin DOMAIN slots[i].item
        /\ slots[k].resp.status = 422
        /\ slots[l].resp.endpoint = "replace_item"
        /\ slots[l].resp.called
====
